---- MODULE Spec2Model ----
(***************************************************************************)
(* Model of the segmented recording controller FFmpegRecorder              *)
(* (src/core/ffmpeg_recorder.py): its state machine, the encoder processes *)
(* it spawns, their completion notifications and the finalization of a     *)
(* session, together with the part of the file system these touch; of the  *)
(* device catalog (src/core/device_utils.py): the parser of the probe      *)
(* output, list_dshow_audio_devices, and the virtual-device pick,          *)
(* pick_virtual_audio; and of the command builder, build_command.          *)
(*                                                                         *)
(* The controller runs on one control thread (the Qt event loop).  Every   *)
(* public method and the completion handler is one atomic action.  A       *)
(* process dies in the environment (ProcExit); its finished signal runs    *)
(* _on_segment_finished later from the event loop, or synchronously inside *)
(* QProcess.waitForFinished when stop is waiting for that process.         *)
(*                                                                         *)
(* Environment:                                                            *)
(*  - a process whose start confirmation fails never runs and never emits  *)
(*    finished;                                                            *)
(*  - QProcess.kill() ends the process but does not deliver its finished   *)
(*    signal: the signal stays queued for the event loop;                  *)
(*  - the exit code of a process and whether it left a usable file are     *)
(*    free, also for a killed process (it may have exited by itself just   *)
(*    before the kill);                                                    *)
(*  - the failures of the finalization steps are free (FinEnv);            *)
(*  - the clock has advanced whenever start creates a new session, so      *)
(*    sessions have distinct timestamps.                                   *)
(***************************************************************************)
EXTENDS Integers, Sequences, FiniteSets, TLC

\* ---- bounds ----
MaxProcs == 3      \* QProcess objects created in one behaviour
MaxTs == 2         \* sessions created in one behaviour (readings of the clock)
MaxLines == 4      \* lines of one probe output
MaxDevs == 3       \* descriptors of one catalog handed to the pick

Pids == 1..MaxProcs
Stamps == 1..MaxTs
States == {"IDLE", "RUNNING", "CLOSING", "PAUSED"}
ExitCodes == {0, 1}

VARIABLES
    state,                  \* self._state
    proc,                   \* self.proc: a pid, 0 for None
    opt,                    \* self.opt: 0 for None, 1 once set
    base_ts,                \* self.base_ts: 0 for None
    seg_dir,                \* self.seg_dir: the stamp of the directory, 0 for None
    segments,               \* self.segments: sequence of segment paths <<stamp, idx>>
    final_path,             \* self.final_path: the stamp of record_<stamp>.mp4, 0 for None
    resume_pending,         \* self.resume_pending
    suppress_next_seg_log,  \* self.suppress_next_seg_log
    procs,                  \* the QProcess objects created so far
    nprocs,                 \* how many QProcess objects were created
    files,                  \* segment files that exist with nonzero size
    finals,                 \* stamps whose final output file exists
    dirs,                   \* stamps whose segment directory exists
    lists,                  \* stamps whose concat_list.txt exists
    last                    \* what the last step did (observation only)

\* The device catalog: the scan of list_dshow_audio_devices and one call of
\* pick_virtual_audio.
VARIABLES
    out,                    \* the probe output, one entry per line
    pos,                    \* lines of out the for loop has consumed
    in_audio,               \* in_audio
    last_idx,               \* last_idx: an index into devices, 0 for None
    devices,                \* devices: sequence of [display, alt]
    uniq,                   \* the catalog returned (after de-duplication)
    returned,               \* list_dshow_audio_devices has returned
    devs,                   \* the catalog handed to pick_virtual_audio
    picked                  \* what pick_virtual_audio returned

\* One call of build_command.
VARIABLES
    bopt,                   \* the FFmpegOptions handed to build_command
    out_file,               \* the index of the segment file handed to it
    cmd                     \* the argument list returned (<<>> before the call)

ctl == <<state, proc, opt, base_ts, seg_dir, segments, final_path,
         resume_pending, suppress_next_seg_log>>
session == <<base_ts, seg_dir, segments, final_path>>
fs == <<files, finals, dirs, lists>>
parser == <<out, pos, in_audio, last_idx, devices, uniq, returned>>
picker == <<devs, picked>>
builder == <<bopt, out_file, cmd>>
dev == <<parser, picker, builder>>
rec == <<ctl, procs, nprocs, fs, last>>
vars == <<rec, dev>>

NoProc == [st |-> "none", ts |-> 0, idx |-> 0, code |-> 0]

\* Observation record of a step; every step fills all fields.
\*   op, pre   the operation and the state it was called in
\*   ok, code  the boolean result of start/pause/resume; the code of stop, or
\*             the exit code handled by _on_segment_finished
\*   exe       start: the encoder executable was found (or was not looked for)
\*   who, cur  the process concerned and whether it was self.proc
\*   spawned   QProcess objects created by the step
\*   wrote     the process the q command was written to (0: none)
\*   how       how stop's waits ended; termed, killed: terminate(), kill() called
\*   fins, merges, stopped, emitted   finalizations run, merge tool runs,
\*             stopped signals emitted and the code the signal carried
\*   mlist     the list file the merge tool was run with
\*   xcode, xfile   stop: the exit code of the process it waited for (-1: it
\*             saw no exit) and whether the segment file was there, non-empty
Ev(op, pre) ==
    [op |-> op, pre |-> pre, ok |-> FALSE, exe |-> TRUE, code |-> 0, who |-> 0,
     cur |-> FALSE, spawned |-> 0, wrote |-> 0, how |-> "none",
     termed |-> FALSE, killed |-> FALSE, fins |-> 0, merges |-> 0,
     stopped |-> 0, emitted |-> 0, raised |-> FALSE, mlist |-> <<>>,
     xcode |-> -1, xfile |-> FALSE]

\* ---- pure helpers ----

\* is_recording
is_recording(s) == s \in {"RUNNING", "CLOSING"}

\* _segment_filename: seg_dir / seg<idx>.mp4
_segment_filename(dir, idx) == <<dir, idx>>

\* _final_filename: output_dir / record_<base_ts>.mp4
_final_filename(ts) == ts

\* A test that looks at the exit code only.
SegmentUsableByCode(code, path, fls) == code = 0

\* The test of _on_segment_finished that decides whether a segment is kept.
SegmentUsable(code, path, fls) == code = 0 /\ path \in fls

\* The bookkeeping of _on_segment_finished on the segment list.
AfterFinishedSegments(segs, code, path, fls) ==
    IF SegmentUsable(code, path, fls) THEN Append(segs, path) ELSE segs

\* The process handle after _on_segment_finished: dropped only for self.proc.
AfterFinishedProc(cur, who) == IF cur = who THEN 0 ELSE cur

\* A handler that never leaves CLOSING.
AfterFinishedStateKept(s) == s

\* The state after the was_closing test of _on_segment_finished.
AfterFinishedState(s) == IF s = "CLOSING" THEN "PAUSED" ELSE s

\* The encoder writes its segment file while it runs; what is on disk when it
\* dies is the environment's choice (with -y an older file of that name is
\* overwritten).
FilesAfterExit(fls, path, fileOk) ==
    IF fileOk THEN fls \cup {path} ELSE fls \ {path}

SeqToSet(s) == {s[i] : i \in 1..Len(s)}

RecInit ==
    /\ state = "IDLE"
    /\ proc = 0
    /\ opt = 0
    /\ base_ts = 0
    /\ seg_dir = 0
    /\ segments = <<>>
    /\ final_path = 0
    /\ resume_pending = FALSE
    /\ suppress_next_seg_log = FALSE
    /\ procs = [p \in Pids |-> NoProc]
    /\ nprocs = 0
    /\ files = {}
    /\ finals = {}
    /\ dirs = {}
    /\ lists = {}
    /\ last = Ev("init", "IDLE")

\* No probe output is being scanned.
ParserIdle ==
    /\ out = <<>>
    /\ pos = 0
    /\ in_audio = FALSE
    /\ last_idx = 0
    /\ devices = <<>>
    /\ uniq = <<>>
    /\ returned = FALSE

\* The value of picked before pick_virtual_audio has been called.
NotPicked == [done |-> FALSE, found |-> FALSE, d |-> [display |-> "", alt |-> ""]]

\* No catalog is being searched.
PickerIdle ==
    /\ devs = <<>>
    /\ picked = NotPicked

\* The options of a silent recording; no command is being built.
NoOptions ==
    [audio_mode |-> "none", audio_device |-> "<None>", audio_delay_ms |-> 0,
     encoder |-> "libx264", fps |-> 30]

BuilderIdle ==
    /\ bopt = NoOptions
    /\ out_file = 1
    /\ cmd = <<>>

Init == RecInit /\ ParserIdle /\ PickerIdle /\ BuilderIdle

\* ---- finalization (the SegmentMerger) ----

FinEnv == {"ok", "unlinkfail", "movefail", "listfail", "mergefail", "notfound", "raise"}

\* A directory can be removed only when nothing is left in it.
DirEmpty(dir, fls, lst) == (\A f \in fls : f[1] # dir) /\ dir \notin lst

\* Path.rmdir, with the exception it raises swallowed by the caller.
Rmdir(drs, dir, fls, lst) ==
    IF dir \in drs /\ DirEmpty(dir, fls, lst) THEN drs \ {dir} ELSE drs

FinResult(c, fls, fnl, drs, lst, m, r) ==
    [code |-> c, files |-> fls, finals |-> fnl, dirs |-> drs, lists |-> lst,
     merges |-> m, raised |-> r]

\* The single-segment branch: unlink an existing final file, move the segment.
FinalizeSingle(ts, dir, segs, fls, fnl, drs, lst, e) ==
    LET only == segs[1]
        final == _final_filename(ts)
    IN  IF final \in fnl /\ e = "unlinkfail"
        THEN FinResult(-3, fls, fnl, drs, lst, 0, FALSE)
        ELSE IF only \in fls /\ e # "movefail"
        THEN FinResult(0, fls \ {only}, fnl \cup {final},
                       Rmdir(drs, dir, fls \ {only}, lst), lst, 0, FALSE)
        ELSE FinResult(-3, fls, fnl \ {final}, drs, lst, 0, FALSE)

\* A list file written back to front.
MergeListReversed(segs) == [i \in 1..Len(segs) |-> segs[Len(segs) + 1 - i]]

\* The lines of concat_list.txt: one per entry of self.segments, in list order.
MergeList(segs) == [i \in 1..Len(segs) |-> segs[i]]

\* What is deleted after the merge tool returned 0.
CleanupAfterMerge(dir, segs, fls, fnl, drs, lst, final) ==
    LET fls2 == fls \ SeqToSet(segs)
        lst2 == lst \ {dir}
    IN  FinResult(0, fls2, fnl \cup {final}, Rmdir(drs, dir, fls2, lst2), lst2,
                  1, FALSE)

\* A merge branch that cleans up whatever the merge tool returned.
FinalizeConcatCleansAlways(ts, dir, segs, fls, fnl, drs, lst, e) ==
    LET final == _final_filename(ts)
        lst1 == lst \cup {dir}
        done == CleanupAfterMerge(dir, segs, fls, fnl, drs, lst1, final)
    IN  IF dir \notin drs \/ e = "listfail"
        THEN FinResult(-4, fls, fnl, drs, lst, 0, FALSE)
        ELSE IF e = "notfound"
        THEN FinResult(-5, fls, fnl, drs, lst1, 0, FALSE)
        ELSE IF e = "raise"
        THEN FinResult(-1, fls, fnl, drs, lst1, 0, TRUE)
        ELSE IF e = "mergefail"
        THEN FinResult(1, done.files, fnl, done.dirs, done.lists, 1, FALSE)
        ELSE done

\* The multi-segment branch: write the list file, run the merge tool.
FinalizeConcat(ts, dir, segs, fls, fnl, drs, lst, e) ==
    LET final == _final_filename(ts)
        lst1 == lst \cup {dir}
    IN  IF dir \notin drs \/ e = "listfail"
        THEN FinResult(-4, fls, fnl, drs, lst, 0, FALSE)
        ELSE IF e = "notfound"
        THEN FinResult(-5, fls, fnl, drs, lst1, 0, FALSE)
        ELSE IF e = "raise"
        THEN FinResult(-1, fls, fnl, drs, lst1, 0, TRUE)
        ELSE IF e = "mergefail"
        THEN FinResult(1, fls, fnl, drs, lst1, 1, FALSE)
        ELSE CleanupAfterMerge(dir, segs, fls, fnl, drs, lst1, final)

\* The environments that make a difference to _finalize_concat in the branch
\* it takes (the others behave as "ok").
FinEnvFor(o, ts, dir, segs, fnl, drs) ==
    IF o = 0 \/ ts = 0 \/ dir = 0 \/ segs = <<>> THEN {"ok"}
    ELSE IF Len(segs) = 1
    THEN {"ok", "movefail"} \cup
         (IF _final_filename(ts) \in fnl THEN {"unlinkfail"} ELSE {})
    ELSE IF dir \notin drs THEN {"ok"}
    ELSE {"ok", "listfail", "mergefail", "notfound", "raise"}

\* A finalization that never finds the list empty.
NothingToSaveNever(segs) == FALSE

\* The test `if not self.segments` of _finalize_concat.
NothingToSave(segs) == segs = <<>>

\* _finalize_concat
_finalize_concat(o, ts, dir, segs, fls, fnl, drs, lst, e) ==
    IF o = 0 \/ ts = 0 \/ dir = 0
    THEN FinResult(-1, fls, fnl, drs, lst, 0, FALSE)
    ELSE IF NothingToSave(segs)
    THEN FinResult(-2, fls, fnl, drs, lst, 0, FALSE)
    ELSE IF Len(segs) = 1
    THEN FinalizeSingle(ts, dir, segs, fls, fnl, drs, lst, e)
    ELSE FinalizeConcat(ts, dir, segs, fls, fnl, drs, lst, e)

\* ---- starting a segment process ----

\* An index that counts the completed segments from zero.
NextSegmentIndexFromZero(segs) == Len(segs)

\* The index _start_new_segment gives the next segment.
NextSegmentIndex(segs) == Len(segs) + 1

\* The state _start_new_segment leaves when waitForStarted fails.
FailedStartState == "IDLE"

\* A guard of start with the state test inverted.
StartRejectedWhenNotRecording(p, s) == p # 0 \/ ~is_recording(s)

\* The guard of start.
StartRejected(p, s) == p # 0 \/ is_recording(s)

\* A pause that forgets the state test and looks at the handle only.
PauseRejectedHandleOnly(s, p) == p = 0

\* The guard of pause.
PauseRejected(s, p) == s # "RUNNING" \/ p = 0

\* The resume branch that spawns: PAUSED, or IDLE with segments left.
ResumeSpawns(s, segs) == s = "PAUSED" \/ (s = "IDLE" /\ segs # <<>>)

\* _start_new_segment: creates QProcess number nprocs + 1 for the next segment
\* path; on a failed start confirmation the handle is dropped again.
_start_new_segment(segs, dir, started) ==
    LET pid == nprocs + 1
        idx == NextSegmentIndex(segs)
    IN  /\ nprocs < MaxProcs
        /\ nprocs' = pid
        /\ procs' = [procs EXCEPT ![pid] =
                        [st |-> IF started THEN "running" ELSE "failed",
                         ts |-> dir, idx |-> idx, code |-> 0]]
        /\ proc' = IF started THEN pid ELSE 0
        /\ state' = IF started THEN "RUNNING" ELSE FailedStartState

\* ---- the operations ----

\* start(opt): ffOk is Path(opt.ffmpeg_path).exists(), ts the clock reading
\* (the clock has advanced since the previous session was created), started
\* the result of waitForStarted.
start(ffOk, ts, started) ==
    \/ /\ StartRejected(proc, state) \/ ~ffOk
       /\ StartRejected(proc, state) => ffOk
       /\ ts = 1 /\ started
       /\ last' = [Ev("start", state) EXCEPT !.exe = ffOk]
       /\ UNCHANGED <<ctl, procs, nprocs, fs, dev>>
    \/ /\ ~StartRejected(proc, state) /\ ffOk
       /\ ts = base_ts + 1
       /\ opt' = 1
       /\ base_ts' = ts
       /\ seg_dir' = ts
       /\ dirs' = dirs \cup {ts}
       /\ segments' = <<>>
       /\ final_path' = _final_filename(ts)
       /\ resume_pending' = FALSE
       /\ suppress_next_seg_log' = FALSE
       /\ _start_new_segment(<<>>, ts, started)
       /\ last' = [Ev("start", state) EXCEPT !.ok = started, !.spawned = 1,
                                              !.who = nprocs + 1]
       /\ UNCHANGED <<files, finals, lists, dev>>

\* pause()
pause ==
    \/ /\ PauseRejected(state, proc)
       /\ last' = Ev("pause", state)
       /\ UNCHANGED <<ctl, procs, nprocs, fs, dev>>
    \/ /\ ~PauseRejected(state, proc)
       /\ suppress_next_seg_log' = TRUE
       /\ state' = "CLOSING"
       /\ last' = [Ev("pause", state) EXCEPT !.ok = TRUE, !.wrote = proc]
       /\ UNCHANGED <<proc, opt, base_ts, seg_dir, segments, final_path,
                      resume_pending, procs, nprocs, fs, dev>>

\* resume(): started is the result of waitForStarted when a process is spawned.
resume(started) ==
    \/ /\ state = "RUNNING"
       /\ started
       /\ last' = [Ev("resume", state) EXCEPT !.ok = TRUE]
       /\ UNCHANGED <<ctl, procs, nprocs, fs, dev>>
    \/ /\ state = "CLOSING"
       /\ started
       /\ resume_pending' = TRUE
       /\ last' = [Ev("resume", state) EXCEPT !.ok = TRUE]
       /\ UNCHANGED <<state, proc, opt, base_ts, seg_dir, segments, final_path,
                      suppress_next_seg_log, procs, nprocs, fs, dev>>
    \/ /\ state \notin {"RUNNING", "CLOSING"}
       /\ ResumeSpawns(state, segments)
       /\ resume_pending' = FALSE
       /\ _start_new_segment(segments, seg_dir, started)
       /\ last' = [Ev("resume", state) EXCEPT !.ok = started, !.spawned = 1,
                                               !.who = nprocs + 1]
       /\ UNCHANGED <<opt, base_ts, seg_dir, segments, final_path,
                      suppress_next_seg_log, fs, dev>>
    \/ /\ state \notin {"RUNNING", "CLOSING"}
       /\ ~ResumeSpawns(state, segments)
       /\ started
       /\ last' = Ev("resume", state)
       /\ UNCHANGED <<ctl, procs, nprocs, fs, dev>>

\* A running encoder process dies: on its own, or after the q command.  Its
\* exit code and what it left on disk are the environment's choice; a segment
\* file can exist only while its directory does.
ProcExit(p, code, fileOk) ==
    /\ procs[p].st = "running"
    /\ fileOk => procs[p].ts \in dirs
    /\ procs' = [procs EXCEPT ![p].st = "exited", ![p].code = code]
    /\ files' = FilesAfterExit(files, <<procs[p].ts, procs[p].idx>>, fileOk)
    /\ last' = [Ev("exit", state) EXCEPT !.who = p, !.cur = (p = proc)]
    /\ UNCHANGED <<ctl, nprocs, finals, dirs, lists, dev>>

\* _on_segment_finished(code, seg_path, who), run by the event loop for a
\* process that has died; started is the result of waitForStarted when the
\* deferred resume spawns the next segment.
_on_segment_finished(p, started) ==
    LET code == procs[p].code
        path == _segment_filename(procs[p].ts, procs[p].idx)
        segs1 == AfterFinishedSegments(segments, code, path, files)
        ev == [Ev("finished", state) EXCEPT !.who = p, !.cur = (p = proc),
                  !.code = code]
    IN  /\ procs[p].st = "exited"
        /\ segments' = segs1
        /\ suppress_next_seg_log' = FALSE
        /\ resume_pending' = FALSE
        /\ IF resume_pending
           THEN /\ nprocs < MaxProcs
                /\ nprocs' = nprocs + 1
                /\ procs' = [procs EXCEPT
                     ![p].st = "done", ![p].code = 0,
                     ![nprocs + 1] =
                        [st |-> IF started THEN "running" ELSE "failed",
                         ts |-> seg_dir, idx |-> NextSegmentIndex(segs1),
                         code |-> 0]]
                /\ proc' = IF started THEN nprocs + 1 ELSE 0
                /\ state' = IF started THEN "RUNNING" ELSE FailedStartState
                /\ last' = [ev EXCEPT !.spawned = 1, !.ok = started]
           ELSE /\ started
                /\ procs' = [procs EXCEPT ![p].st = "done", ![p].code = 0]
                /\ proc' = AfterFinishedProc(proc, p)
                /\ state' = AfterFinishedState(state)
                /\ last' = ev
                /\ UNCHANGED nprocs
        /\ UNCHANGED <<opt, base_ts, seg_dir, final_path, fs, dev>>

\* How the process stop is waiting for ends: within the first bounded wait,
\* within the second (after terminate), or not at all (kill).
StopWaits == {"graceful", "terminate", "kill"}

\* A stop whose waits never run the completion handler.
ExitMissedByStop(w) == FALSE

\* Whether stop's waitForFinished calls saw the process exit, so that its
\* finished signal ran _on_segment_finished inside the wait.
ExitSeenByStop(w) == w # "kill"

\* stop calls terminate() when the first wait (5 s) ended without the exit.
StopTerminates(w) == w \in {"terminate", "kill"}

\* A ladder that kills whenever it has terminated, without the second wait.
StopKillsAfterTerminate(w) == w \in {"terminate", "kill"}

\* stop calls kill() when the second wait (3 s) ended without the exit too.
StopKills(w) == w = "kill"

\* A stop whose finally block leaves the handle in place.
StopFinalProcKept(p) == p

\* The process handle at the end of stop (the finally block).
StopFinalProc(p) == 0

\* stop(): w, code and fileOk describe the end of the current process when it
\* is still running, e the environment of the finalization.
stop(w, code, fileOk, e) ==
    LET p == proc
        alive == p # 0 /\ procs[p].st = "running"
        dead == p # 0 /\ procs[p].st = "exited"
        how == IF p = 0 THEN "none" ELSE IF dead THEN "graceful" ELSE w
        seen == p # 0 /\ ExitSeenByStop(how)
        path == IF p = 0 THEN <<0, 0>>
                ELSE _segment_filename(procs[p].ts, procs[p].idx)
        c == IF alive THEN code ELSE IF dead THEN procs[p].code ELSE 0
        fls1 == IF alive THEN FilesAfterExit(files, path, fileOk) ELSE files
        segs1 == IF seen THEN AfterFinishedSegments(segments, c, path, fls1)
                 ELSE segments
        r == _finalize_concat(opt, base_ts, seg_dir, segs1, fls1, finals,
                              dirs, lists, e)
    IN  /\ alive => (fileOk => procs[p].ts \in dirs)
        /\ ~alive => (w = "graceful" /\ code = 0 /\ fileOk)
        /\ e \in FinEnvFor(opt, base_ts, seg_dir, segs1, finals, dirs)
        /\ resume_pending' = FALSE
        /\ procs' = IF p = 0 THEN procs
                    ELSE [procs EXCEPT ![p].st = IF seen THEN "done" ELSE "exited",
                                       ![p].code = IF seen THEN 0 ELSE c]
        /\ segments' = segs1
        /\ suppress_next_seg_log' = IF seen THEN FALSE ELSE suppress_next_seg_log
        /\ files' = r.files
        /\ finals' = r.finals
        /\ dirs' = r.dirs
        /\ lists' = r.lists
        /\ proc' = StopFinalProc(p)
        /\ state' = "IDLE"
        /\ last' = [Ev("stop", state) EXCEPT
                      !.code = r.code, !.who = p, !.cur = (p # 0),
                      !.fins = 1, !.merges = r.merges, !.stopped = 1,
                      !.emitted = r.code, !.how = how, !.raised = r.raised,
                      !.wrote = p,
                      !.mlist = (IF r.merges = 0 THEN <<>> ELSE MergeList(segs1)),
                      !.xcode = (IF how \in {"graceful", "terminate"}
                                 THEN c ELSE -1),
                      !.xfile = (how \in {"graceful", "terminate"}
                                 /\ path \in fls1),
                      !.termed = StopTerminates(how),
                      !.killed = StopKills(how)]
        /\ UNCHANGED <<opt, base_ts, seg_dir, final_path, nprocs, dev>>

Next ==
    \/ \E ffOk \in BOOLEAN, ts \in Stamps, started \in BOOLEAN :
          start(ffOk, ts, started)
    \/ pause
    \/ \E started \in BOOLEAN : resume(started)
    \/ \E w \in StopWaits, code \in ExitCodes, fileOk \in BOOLEAN, e \in FinEnv :
          stop(w, code, fileOk, e)
    \/ \E p \in Pids, code \in ExitCodes, fileOk \in BOOLEAN :
          ProcExit(p, code, fileOk)
    \/ \E p \in Pids, started \in BOOLEAN : _on_segment_finished(p, started)

Spec == Init /\ [][Next]_vars

\* The encoder honors the q command pause wrote to it: the process the
\* controller is closing exits.
ExitAfterQuit ==
    /\ state = "CLOSING"
    /\ proc # 0
    /\ \E code \in ExitCodes, fileOk \in BOOLEAN : ProcExit(proc, code, fileOk)

\* The event loop delivers the finished signal of a process that has died.
Delivered == \E p \in Pids, started \in BOOLEAN : _on_segment_finished(p, started)

\* The recorder with an encoder that honors q and a running event loop.
FairSpec == Init /\ [][Next]_vars /\ WF_vars(ExitAfterQuit) /\ WF_vars(Delivered)

TypeOK ==
    /\ state \in States
    /\ proc \in 0..MaxProcs
    /\ nprocs \in 0..MaxProcs
    /\ base_ts \in 0..MaxTs
    /\ resume_pending \in BOOLEAN
    /\ suppress_next_seg_log \in BOOLEAN
    /\ Len(segments) <= MaxProcs

\* ---- the device catalog parser (list_dshow_audio_devices) ----

\* A line of the probe output after _strip_dshow_prefix, by what the scan
\* can tell of it:
\*   t = "hdrA"   contains "DirectShow audio devices"
\*   t = "hdrV"   contains "DirectShow video devices"
\*   t = "dev"    matches _DEV_RE: "<name>" (<kind>), kind lowercased
\*   t = "alt"    matches _ALT_RE: Alternative name "<alt>"
\*   t = "other"  anything else
Line(t, name, kind, alt) == [t |-> t, name |-> name, kind |-> kind, alt |-> alt]

AudioNames == {"Microphone", "CABLE Output"}
VideoNames == {"Camera", "Capture (Audio) Card"}
Monikers == {"@device_cm_1", "@device_pnp_2"}

ProbeLines ==
    {Line("hdrA", "", "", ""), Line("hdrV", "", "", ""), Line("other", "", "", "")}
    \cup {Line("dev", n, "audio", "") : n \in AudioNames}
    \cup {Line("dev", n, "video", "") : n \in VideoNames}
    \cup {Line("alt", "", "", a) : a \in Monikers}

\* The outputs the scan is run on: every sequence of at most MaxLines lines.
ProbeOutputs == UNION {[1..n -> ProbeLines] : n \in 0..MaxLines}

\* `"(audio)" in line.lower()` for a declaration line: the kind token is
\* audio, or the quoted name holds the marker.
HasAudioMarker(name, kind) == kind = "audio" \/ name \in {"Capture (Audio) Card"}

\* The test that makes a declaration line a descriptor.
IsAudioDeclaration(name, kind, inAudio) ==
    kind = "audio" \/ (~inAudio /\ HasAudioMarker(name, kind))

Descriptor(display, alt) == [display |-> display, alt |-> alt]

\* The de-duplication loop: keep the first descriptor of every
\* (display, alt) pair, in order.
RECURSIVE Dedupe(_, _, _)
Dedupe(ds, i, acc) ==
    IF i > Len(ds) THEN acc
    ELSE IF \E j \in 1..Len(acc) : acc[j] = ds[i]
    THEN Dedupe(ds, i + 1, acc)
    ELSE Dedupe(ds, i + 1, Append(acc, ds[i]))

\* _run_ffmpeg_list has returned the probe output.
ParserInit ==
    /\ out \in ProbeOutputs
    /\ pos = 0
    /\ in_audio = FALSE
    /\ last_idx = 0
    /\ devices = <<>>
    /\ uniq = <<>>
    /\ returned = FALSE

\* The next line is a section header.
ScanHeader ==
    /\ pos < Len(out)
    /\ out[pos + 1].t \in {"hdrA", "hdrV"}
    /\ pos' = pos + 1
    /\ in_audio' = (out[pos + 1].t = "hdrA")
    /\ UNCHANGED <<out, last_idx, devices, uniq, returned, picker, builder, rec>>

\* The next line is a device declaration: an audio one appends a descriptor
\* and becomes the last one, any other is skipped.
ScanDeclaration ==
    /\ pos < Len(out)
    /\ out[pos + 1].t = "dev"
    /\ pos' = pos + 1
    /\ IF IsAudioDeclaration(out[pos + 1].name, out[pos + 1].kind, in_audio)
       THEN /\ devices' = Append(devices, Descriptor(out[pos + 1].name, ""))
            /\ last_idx' = Len(devices) + 1
       ELSE UNCHANGED <<devices, last_idx>>
    /\ UNCHANGED <<out, in_audio, uniq, returned, picker, builder, rec>>

\* The next line is an alternative name: it goes to the descriptor last_idx
\* points at, or makes a descriptor of its own.
ScanAlternative ==
    /\ pos < Len(out)
    /\ out[pos + 1].t = "alt"
    /\ pos' = pos + 1
    /\ IF last_idx # 0
       THEN /\ devices' = [devices EXCEPT ![last_idx].alt = out[pos + 1].alt]
            /\ UNCHANGED last_idx
       ELSE /\ devices' = Append(devices, Descriptor("", out[pos + 1].alt))
            /\ last_idx' = Len(devices) + 1
    /\ UNCHANGED <<out, in_audio, uniq, returned, picker, builder, rec>>

\* The next line is none of these.
ScanOther ==
    /\ pos < Len(out)
    /\ out[pos + 1].t = "other"
    /\ pos' = pos + 1
    /\ UNCHANGED <<out, in_audio, last_idx, devices, uniq, returned, picker, builder, rec>>

\* The scan is over: de-duplicate and return.
ReturnCatalog ==
    /\ pos = Len(out)
    /\ ~returned
    /\ uniq' = Dedupe(devices, 1, <<>>)
    /\ returned' = TRUE
    /\ UNCHANGED <<out, pos, in_audio, last_idx, devices, picker, builder, rec>>

ParserNext ==
    \/ ScanHeader
    \/ ScanDeclaration
    \/ ScanAlternative
    \/ ScanOther
    \/ ReturnCatalog

\* A scan starts on a fresh recorder; no pick is under way.
ParserStart == RecInit /\ ParserInit /\ PickerIdle /\ BuilderIdle

ParserSpec == ParserStart /\ [][ParserNext]_vars

\* ---- the virtual-device pick (pick_virtual_audio) ----

VAC_CANDIDATES ==
    << "CABLE Output (VB-Audio Virtual Cable)",
       "CABLE Output(VB-Audio Virtual Cable)",
       "VoiceMeeter Output (VB-Audio VoiceMeeter VAIO)",
       "VoiceMeeter Aux Output (VB-Audio VoiceMeeter AUX VAIO)",
       "VoiceMeeter VAIO3 Output (VB-Audio VoiceMeeter VAIO3)",
       "VoiceMeeter AUX VAIO Output (VB-Audio VoiceMeeter AUX VAIO)" >>

Keywords == <<"vb-audio", "virtual cable", "voicemeeter">>

\* The display names and alternative names of the catalogs searched: two
\* spellings of the first candidate, the third candidate, a name and a
\* moniker that hold a keyword only, and ones that hold none.
DisplayNames ==
    { "CABLE Output (VB-Audio Virtual Cable)",
      "Cable Output (VB-Audio Virtual Cable)",
      "VoiceMeeter Output (VB-Audio VoiceMeeter VAIO)",
      "Line 1 (Virtual Cable)",
      "Microphone (Realtek Audio)",
      "" }
AltNames == {"", "@device_cm_wave_1", "@device_sw_VoiceMeeter_2"}

\* str.lower on the strings that occur.
Lower(s) ==
    CASE s = "CABLE Output (VB-Audio Virtual Cable)"
            -> "cable output (vb-audio virtual cable)"
      [] s = "Cable Output (VB-Audio Virtual Cable)"
            -> "cable output (vb-audio virtual cable)"
      [] s = "CABLE Output(VB-Audio Virtual Cable)"
            -> "cable output(vb-audio virtual cable)"
      [] s = "VoiceMeeter Output (VB-Audio VoiceMeeter VAIO)"
            -> "voicemeeter output (vb-audio voicemeeter vaio)"
      [] s = "VoiceMeeter Aux Output (VB-Audio VoiceMeeter AUX VAIO)"
            -> "voicemeeter aux output (vb-audio voicemeeter aux vaio)"
      [] s = "VoiceMeeter VAIO3 Output (VB-Audio VoiceMeeter VAIO3)"
            -> "voicemeeter vaio3 output (vb-audio voicemeeter vaio3)"
      [] s = "VoiceMeeter AUX VAIO Output (VB-Audio VoiceMeeter AUX VAIO)"
            -> "voicemeeter aux vaio output (vb-audio voicemeeter aux vaio)"
      [] s = "Line 1 (Virtual Cable)" -> "line 1 (virtual cable)"
      [] s = "Microphone (Realtek Audio)" -> "microphone (realtek audio)"
      [] s = "@device_sw_VoiceMeeter_2" -> "@device_sw_voicemeeter_2"
      [] OTHER -> s

\* `k in s` for a keyword k and a lowercased string s that occurs.
Contains(s, k) ==
    \/ /\ k = "vb-audio"
       /\ s \in { "cable output (vb-audio virtual cable)",
                  "voicemeeter output (vb-audio voicemeeter vaio)" }
    \/ /\ k = "virtual cable"
       /\ s \in { "cable output (vb-audio virtual cable)",
                  "line 1 (virtual cable)" }
    \/ /\ k = "voicemeeter"
       /\ s \in { "voicemeeter output (vb-audio voicemeeter vaio)",
                  "@device_sw_voicemeeter_2" }

\* any(k in s for k in [...])
HasKeyword(s) == \E i \in 1..Len(Keywords) : Contains(s, Keywords[i])

\* The catalogs the pick is run on: at most MaxDevs descriptors, none with
\* both fields empty and no pair twice (what list_dshow_audio_devices returns).
Descriptors ==
    {d \in [display : DisplayNames, alt : AltNames] : d.display # "" \/ d.alt # ""}
Catalogs ==
    {c \in UNION {[1..n -> Descriptors] : n \in 0..MaxDevs} :
        \A i, j \in 1..Len(c) : i # j => c[i] # c[j]}

\* lowers.get(key): the dict comprehension assigns the descriptors in catalog
\* order, so a later descriptor replaces an earlier one under the same key.
\* 0 stands for None, otherwise the index of the descriptor in the catalog.
LowersGet(c, key) ==
    LET hits == {i \in 1..Len(c) : Lower(c[i].display) = key}
    IN  IF hits = {} THEN 0
        ELSE CHOOSE i \in hits : \A j \in hits : j <= i

\* The first index of a non-empty set of indices.
First(S) == CHOOSE i \in S : \A j \in S : i <= j

Found(d) == [done |-> TRUE, found |-> TRUE, d |-> d]
None == [done |-> TRUE, found |-> FALSE, d |-> [display |-> "", alt |-> ""]]

\* pick_virtual_audio
pick_virtual_audio(c) ==
    LET exact == {k \in 1..Len(VAC_CANDIDATES) :
                     LowersGet(c, Lower(VAC_CANDIDATES[k])) # 0}
        byDisplay == {i \in 1..Len(c) : HasKeyword(Lower(c[i].display))}
        byAlt == {i \in 1..Len(c) : HasKeyword(Lower(c[i].alt))}
    IN  IF exact # {}
        THEN Found(c[LowersGet(c, Lower(VAC_CANDIDATES[First(exact)]))])
        ELSE IF byDisplay # {} THEN Found(c[First(byDisplay)])
        ELSE IF byAlt # {} THEN Found(c[First(byAlt)])
        ELSE None

PickerInit ==
    /\ devs \in Catalogs
    /\ picked = NotPicked

\* One call of pick_virtual_audio on the catalog.
Pick ==
    /\ ~picked.done
    /\ picked' = pick_virtual_audio(devs)
    /\ UNCHANGED <<devs, parser, builder, rec>>

PickerNext == Pick

\* A pick starts on a fresh recorder; no scan is under way.
PickerStart == RecInit /\ ParserIdle /\ PickerInit /\ BuilderIdle

PickerSpec == PickerStart /\ [][PickerNext]_vars

\* ---- the command builder (build_command) ----

\* An argument is the sequence of the pieces its text is put together from:
\* <<"-i">>, <<"audio=", "Microphone">>, <<"seg", "0", "1", ".mp4">>.

AudioModes == {"none", "dshow"}
\* opt.audio_device: None (written "<None>"), the empty string, or a name.
AudioDevices == {"<None>", "", "Microphone", "@device_cm_1"}
AudioDelays == {-250, 0, 500, 1500}
VideoEncoders ==
    {"libx264", "h264_nvenc", "h264_qsv", "h264_amf",
     "hevc_nvenc", "hevc_qsv", "hevc_amf"}
FrameRates == {30, 60}

BuildOptions ==
    [audio_mode : AudioModes, audio_device : AudioDevices,
     audio_delay_ms : AudioDelays, encoder : VideoEncoders, fps : FrameRates]

\* The truth value Python gives opt.audio_device.
Truthy(device) == device \notin {"<None>", ""}

Abs(n) == IF n < 0 THEN -n ELSE n

\* f"{ms/1000:.3f}": sign, whole seconds, point, three decimals.
Seconds(ms) ==
    <<(IF ms < 0 THEN "-" ELSE ""), ToString(Abs(ms) \div 1000), ".",
      ToString((Abs(ms) \div 100) % 10), ToString((Abs(ms) \div 10) % 10),
      ToString(Abs(ms) % 10)>>

\* f"seg{idx:02d}.mp4" (the directory is left out).
SegmentName(idx) == <<"seg", ToString((idx \div 10) % 10), ToString(idx % 10), ".mp4">>

\* video_args, for the one monitor 1920x1080 at (0, 0).
VideoArgs(o) ==
    << <<"-f">>, <<"gdigrab">>, <<"-framerate">>, <<ToString(o.fps)>>,
       <<"-offset_x">>, <<"0">>, <<"-offset_y">>, <<"0">>,
       <<"-video_size">>, <<"1920", "x", "1080">>, <<"-i">>, <<"desktop">> >>

\* The audio input itself.
AudioInput(o) ==
    << <<"-thread_queue_size">>, <<"512">>, <<"-f">>, <<"dshow">>,
       <<"-i">>, <<"audio=", o.audio_device>> >>

\* The time offset of the audio input.
AudioOffset(o) ==
    IF o.audio_delay_ms # 0
    THEN << <<"-itsoffset">>, Seconds(o.audio_delay_ms) >>
    ELSE <<>>

\* Audio arguments with the time offset behind the input it is meant for.
AudioArgsOffsetBehind(o) ==
    IF o.audio_mode = "dshow" /\ Truthy(o.audio_device)
    THEN AudioInput(o) \o AudioOffset(o)
    ELSE <<>>

\* audio_args
AudioArgs(o) ==
    IF o.audio_mode = "dshow" /\ Truthy(o.audio_device)
    THEN AudioOffset(o) \o AudioInput(o)
    ELSE <<>>

\* _video_encode_args (opt.preset is "veryfast")
_video_encode_args(o) ==
    IF o.encoder = "libx264"
    THEN << <<"-c:v">>, <<"libx264">>, <<"-preset">>, <<"veryfast">>,
            <<"-pix_fmt">>, <<"yuv420p">> >>
    ELSE IF o.encoder \in {"h264_nvenc", "hevc_nvenc"}
    THEN << <<"-c:v">>, <<o.encoder>>, <<"-preset">>, <<"p5">>,
            <<"-pix_fmt">>, <<"yuv420p">> >>
    ELSE IF o.encoder \in {"h264_qsv", "hevc_qsv", "h264_amf", "hevc_amf"}
    THEN << <<"-c:v">>, <<o.encoder>>, <<"-pix_fmt">>, <<"yuv420p">> >>
    ELSE << <<"-c:v">>, <<"libx264">>, <<"-preset">>, <<"veryfast">>,
            <<"-pix_fmt">>, <<"yuv420p">> >>

\* encode_a
AudioEncodeArgs(o) ==
    IF o.audio_mode # "none"
    THEN << <<"-c:a">>, <<"aac">>, <<"-b:a">>, <<"192k">>, <<"-ar">>,
            <<"48000">>, <<"-ac">>, <<"2">> >>
    ELSE << <<"-an">> >>

\* build_command
build_command(o, idx) ==
    << <<"ffmpeg">>, <<"-y">>, <<"-hide_banner">>, <<"-v">>, <<"warning">> >>
    \o VideoArgs(o) \o AudioArgs(o) \o _video_encode_args(o)
    \o AudioEncodeArgs(o) \o << <<"-movflags">>, <<"+faststart">> >>
    \o << SegmentName(idx) >>

BuilderInit ==
    /\ bopt \in BuildOptions
    /\ out_file \in 1..MaxProcs
    /\ cmd = <<>>

\* One call of build_command.
Build ==
    /\ cmd = <<>>
    /\ cmd' = build_command(bopt, out_file)
    /\ UNCHANGED <<bopt, out_file, parser, picker, rec>>

BuilderNext == Build

\* A command is built on a fresh recorder; no scan or pick is under way.
BuilderStart == RecInit /\ ParserIdle /\ PickerIdle /\ BuilderInit

BuilderSpec == BuilderStart /\ [][BuilderNext]_vars

\* ---- the claims ----

Running == {p \in Pids : procs[p].st = "running"}

\* C1: start is rejected in every non-IDLE state: called in RUNNING, CLOSING
\* or PAUSED it returns failure, spawns no process and leaves the state, the
\* segment list, the base timestamp, the segment directory and the final
\* output path unchanged.
C1_StartRejectedOutsideIdle ==
    [][(last'.op = "start" /\ state # "IDLE") =>
          /\ ~last'.ok
          /\ last'.spawned = 0
          /\ state' = state
          /\ UNCHANGED session]_vars

\* C2: stop in IDLE is a no-op whatever happened before: it returns a failure
\* code, leaves the state IDLE, runs no merge tool and creates, deletes or
\* overwrites no file (in particular not the final output of the previous
\* session).
C2_StopInIdleIsNoOp ==
    [][(last'.op = "stop" /\ state = "IDLE") =>
          /\ last'.code # 0
          /\ state' = "IDLE"
          /\ last'.merges = 0
          /\ UNCHANGED fs]_vars

\* C3: a resume issued during CLOSING is honored exactly once, and when the
\* in-flight segment process exits: the completion handler that finds the
\* resume-pending flag set is the one of the current process, it spawns exactly
\* one process, clears the flag and (the start being confirmed) ends in
\* RUNNING; a completion handler that finds the flag clear spawns nothing.
C3_DeferredResumeHonoredOnce ==
    [][last'.op = "finished" =>
          /\ resume_pending =>
                /\ last'.cur
                /\ last'.spawned = 1
                /\ ~resume_pending'
                /\ last'.ok => state' = "RUNNING"
          /\ ~resume_pending => last'.spawned = 0]_vars

\* C4: no two encoder processes are alive at the same time: at most one
\* spawned segment process has not yet exited.
C4_AtMostOneProcessAlive == Cardinality(Running) <= 1

\* C5: finalization runs only after the last process is confirmed exited: on
\* every path through stop, when finalization has run the process stop was
\* waiting for has exited and its completion handler has already run.
C5_FinalizeAfterHandler ==
    (last.op = "stop" /\ last.who # 0) => procs[last.who].st = "done"

\* C6: segment indices are strictly increasing from 1 within a session: the
\* first process of a session has index 1 and every later process of the
\* session has an index greater than that of every process started before it,
\* dropped segments included.
C6_IndicesStrictlyIncreasing ==
    \A q \in 1..nprocs :
        procs[q].st # "failed" =>
            /\ (\A p \in 1..(q - 1) : procs[p].ts # procs[q].ts) => procs[q].idx = 1
            /\ \A p \in 1..(q - 1) :
                  (procs[p].st # "failed" /\ procs[p].ts = procs[q].ts)
                      => procs[p].idx < procs[q].idx

\* C7: a failed process start leaves the controller state unchanged: whenever
\* the start confirmation of a new segment process fails (in start, in resume
\* or in the completion handler), no process handle is retained and the state
\* after the operation is the state before it.
C7_FailedStartKeepsState ==
    [][(last'.spawned = 1 /\ ~last'.ok) =>
          /\ proc' = 0
          /\ state' = state]_vars

\* C8: after a stop whose finalization succeeded the session is destroyed, no
\* segment record of it is held any more: a resume that follows in IDLE is
\* rejected and spawns no process.
C8_ResumeAfterFinalizeRejected ==
    [][(last.op = "stop" /\ last.code = 0 /\ last'.op = "resume") =>
          /\ ~last'.ok
          /\ last'.spawned = 0]_vars

\* C9: stop called in RUNNING, CLOSING or PAUSED leaves the controller in
\* IDLE with no process handle, runs finalization exactly once and emits
\* exactly one stopped signal carrying the result, however the process ended
\* and whether or not finalization failed or raised.
C9_StopAlwaysReachesIdle ==
    (last.op = "stop" /\ last.pre \in {"RUNNING", "CLOSING", "PAUSED"}) =>
        /\ state = "IDLE"
        /\ proc = 0
        /\ last.fins = 1
        /\ last.stopped = 1
        /\ last.emitted = last.code
        /\ last.raised => last.code = -1

\* C9 witness: a stop in CLOSING that had to kill the process and whose
\* finalization failed.
C9_Witness ==
    /\ last.op = "stop"
    /\ last.pre = "CLOSING"
    /\ last.how = "kill"
    /\ last.code # 0
    /\ state = "IDLE"

\* C10: pause follows the state table: in RUNNING with a process it writes the
\* stop command to that process, moves to CLOSING and returns success; in IDLE,
\* PAUSED and CLOSING it returns failure, writes nothing and leaves the state
\* and the resume-pending flag unchanged.
C10_PauseFollowsTable ==
    [][last'.op = "pause" =>
          /\ (state = "RUNNING" /\ proc # 0) =>
                /\ last'.ok
                /\ last'.wrote = proc
                /\ state' = "CLOSING"
          /\ state \in {"IDLE", "PAUSED", "CLOSING"} =>
                /\ ~last'.ok
                /\ last'.wrote = 0
                /\ state' = state
                /\ resume_pending' = resume_pending]_vars

\* C10 witness: a pause rejected in CLOSING while a resume is pending.
C10_Witness ==
    /\ last.op = "pause"
    /\ last.pre = "CLOSING"
    /\ ~last.ok
    /\ resume_pending
    /\ state = "CLOSING"

\* C11: when a segment process exits while the controller is CLOSING and no
\* resume is pending, the completion handler moves the controller to PAUSED
\* with no process handle held and spawns no process; when a segment process
\* exits while RUNNING with no resume pending, the state does not become
\* PAUSED.
C11_ExitFollowsTable ==
    [][last'.op = "finished" =>
          /\ (state = "CLOSING" /\ ~resume_pending) =>
                /\ state' = "PAUSED"
                /\ proc' = 0
                /\ last'.spawned = 0
          /\ (state = "RUNNING" /\ ~resume_pending) => state' # "PAUSED"]_vars

\* C12 (as stated): resume in RUNNING is a no-op (it returns success, spawns
\* nothing and the state stays RUNNING), and resume in PAUSED spawns exactly one
\* new segment process whose index is the number of completed segments plus one
\* and moves the controller to RUNNING.
C12_ResumeFollowsTable ==
    [][last'.op = "resume" =>
          /\ state = "RUNNING" =>
                /\ last'.ok
                /\ last'.spawned = 0
                /\ nprocs' = nprocs
                /\ state' = "RUNNING"
          /\ state = "PAUSED" =>
                /\ last'.spawned = 1
                /\ nprocs' = nprocs + 1
                /\ procs'[last'.who].idx = Len(segments) + 1
                /\ state' = "RUNNING"]_vars

\* C12 (amended): resume in RUNNING is a no-op (it returns success, spawns
\* nothing and the state stays RUNNING), and resume in PAUSED spawns exactly one
\* new segment process whose index is the number of completed segments plus
\* one; when the start of that process is confirmed the controller moves to
\* RUNNING and resume returns success.
C12_ResumeFollowsTableIfStarted ==
    [][last'.op = "resume" =>
          /\ state = "RUNNING" =>
                /\ last'.ok
                /\ last'.spawned = 0
                /\ nprocs' = nprocs
                /\ state' = "RUNNING"
          /\ state = "PAUSED" =>
                /\ last'.spawned = 1
                /\ nprocs' = nprocs + 1
                /\ last'.who = nprocs'
                /\ procs[last'.who].st = "none"
                /\ procs'[last'.who].idx = Len(segments) + 1
                /\ procs'[last'.who].st = "running" =>
                      (last'.ok /\ state' = "RUNNING" /\ proc' = last'.who)]_vars

\* C12 witness: a resume in PAUSED, one segment completed, has spawned the
\* process of segment 2 and the controller is RUNNING.
C12_Witness ==
    /\ last.op = "resume"
    /\ last.pre = "PAUSED"
    /\ last.ok
    /\ last.spawned = 1
    /\ Len(segments) = 1
    /\ procs[last.who].idx = 2
    /\ state = "RUNNING"

\* C13: start in IDLE with an existing encoder executable creates a fresh
\* session and spawns the process of segment 1: the segment list is empty, the
\* resume-pending and log-suppression flags are clear, the final output path
\* is the one of the new timestamp; with the start confirmed the controller is
\* RUNNING, holds the new process and start returns success.  If the
\* executable does not exist start returns failure, spawns nothing and the
\* controller stays IDLE with its session fields untouched.
C13_StartFollowsTable ==
    [][(last'.op = "start" /\ state = "IDLE") =>
          IF last'.exe
          THEN /\ last'.spawned = 1
               /\ nprocs' = nprocs + 1
               /\ last'.who = nprocs'
               /\ procs'[last'.who].idx = 1
               /\ procs'[last'.who].st = "running" =>
                     /\ last'.ok
                     /\ state' = "RUNNING"
                     /\ proc' = last'.who
                     /\ segments' = <<>>
                     /\ ~resume_pending'
                     /\ ~suppress_next_seg_log'
                     /\ base_ts' # base_ts
                     /\ procs'[last'.who].ts = base_ts'
                     /\ final_path' = base_ts'
          ELSE /\ ~last'.ok
               /\ last'.spawned = 0
               /\ nprocs' = nprocs
               /\ state' = "IDLE"
               /\ UNCHANGED session]_vars

\* C13 witness: the second session has been started in IDLE, after the first
\* one left its final output behind.
C13_Witness ==
    /\ last.op = "start"
    /\ last.pre = "IDLE"
    /\ last.ok
    /\ state = "RUNNING"
    /\ base_ts = 2
    /\ 1 \in finals
    /\ segments = <<>>

\* C14: the completion handler adds the segment to the completed list if and
\* only if the process exited with code 0 and its file exists with nonzero
\* size; otherwise the segment is dropped and the session continues: the
\* earlier entries of the list are untouched, and the transition taken (to
\* PAUSED, to RUNNING by the deferred resume, or none) is the one a successful
\* exit takes.
C14_FailedSegmentDropped ==
    [][last'.op = "finished" =>
          LET who == last'.who
              path == <<procs[who].ts, procs[who].idx>>
              good == procs[who].code = 0 /\ path \in files
          IN  /\ good => segments' = Append(segments, path)
              /\ ~good => segments' = segments
              /\ ~resume_pending' /\ ~suppress_next_seg_log'
              /\ IF resume_pending
                 THEN /\ last'.spawned = 1
                      /\ last'.ok => state' = "RUNNING"
                 ELSE /\ last'.spawned = 0
                      /\ state' = (IF state = "CLOSING" THEN "PAUSED" ELSE state)]_vars

\* C14 witness: in a session with one completed segment the second process
\* exited with a nonzero code during CLOSING; its segment was dropped and the
\* controller is PAUSED with the first segment still listed.
C14_Witness ==
    /\ last.op = "finished"
    /\ last.pre = "CLOSING"
    /\ last.cur
    /\ last.code # 0
    /\ procs[last.who].idx = 2
    /\ state = "PAUSED"
    /\ segments = <<(<<base_ts, 1>>)>>

\* C15: the escalation ladder of stop is ordered.  A stop that holds a process
\* first writes the graceful stop command to it; terminate is requested only
\* if the process had not exited within the first wait, and the process is
\* killed only if it had not exited within the second wait either.  A process
\* that exits during the first wait is neither terminated nor killed, one that
\* exits during the second wait is not killed.
C15_EscalationOrdered ==
    (last.op = "stop" /\ last.who # 0) =>
        /\ last.wrote = last.who
        /\ last.how \in StopWaits
        /\ last.how = "graceful" => (~last.termed /\ ~last.killed)
        /\ last.how = "terminate" => (last.termed /\ ~last.killed)
        /\ last.how = "kill" => (last.termed /\ last.killed)
        /\ last.killed => procs[last.who].st = "exited"
        /\ ~last.killed => procs[last.who].st = "done"

\* C15 witness: a stop whose process exited during the second wait, after
\* terminate was requested; it was not killed.
C15_Witness ==
    /\ last.op = "stop"
    /\ last.who # 0
    /\ last.how = "terminate"
    /\ last.termed
    /\ ~last.killed
    /\ procs[last.who].st = "done"

\* C16: a session with no completed segment cannot finalize successfully: stop
\* returns 0 only if the completed list is not empty, and when the list of a
\* session is empty finalization reports that there is nothing to save (code
\* -2), runs no merge tool, writes no output file and removes no file or
\* directory (the only file stop may touch is the one the encoder it waited
\* for was writing).
C16_NothingToSave ==
    [][last'.op = "stop" =>
          LET written == IF proc = 0 THEN {}
                         ELSE {<<procs[proc].ts, procs[proc].idx>>}
          IN  /\ last'.code = 0 => segments' # <<>>
              /\ (segments' = <<>> /\ opt # 0) =>
                    /\ last'.code = -2
                    /\ last'.emitted = -2
                    /\ last'.merges = 0
                    /\ UNCHANGED <<finals, dirs, lists>>
                    /\ files' \ written = files \ written]_vars

\* C16 witness: a stop in RUNNING whose only process left no usable segment;
\* it returned -2 and the session directory is still there.
C16_Witness ==
    /\ last.op = "stop"
    /\ last.pre = "RUNNING"
    /\ last.code = -2
    /\ segments = <<>>
    /\ base_ts \in dirs
    /\ finals = {}

\* C17 (as stated): finalization chooses its path by the number of completed
\* segments: with exactly one it moves that segment file to the final output
\* path and never runs the merge tool; with more than one it runs the merge
\* tool exactly once, with a list holding every completed segment once and in
\* completion order.
C17_PathByCount ==
    [][(last'.op = "stop" /\ opt # 0) =>
          /\ Len(segments') = 1 =>
                /\ last'.merges = 0
                /\ segments'[1] \notin files'
                /\ _final_filename(base_ts) \in finals'
          /\ Len(segments') > 1 =>
                /\ last'.merges = 1
                /\ last'.mlist = segments']_vars

\* C17 (amended): with exactly one completed segment finalization never runs
\* the merge tool and, unless removing an old output or the move fails (code
\* -3), moves that segment file to the final output path; with more than one
\* it never moves a segment, runs the merge tool at most once, and exactly
\* once unless the list file cannot be written (-4) or the tool cannot be
\* executed (-5, or -1 for another exception), with a list holding every
\* completed segment once and in completion order; a merge that returned 0
\* has written the final output path.
C17_PathByCountUnlessFailed ==
    [][(last'.op = "stop" /\ opt # 0) =>
          /\ Len(segments') = 1 =>
                /\ last'.merges = 0
                /\ last'.code \in {0, -3}
                /\ last'.code = 0 =>
                      /\ segments'[1] \notin files'
                      /\ _final_filename(base_ts) \in finals'
          /\ Len(segments') > 1 =>
                /\ last'.merges \in {0, 1}
                /\ last'.merges = 1 => last'.mlist = segments'
                /\ last'.merges = 0 => last'.code \in {-4, -5, -1}
                /\ last'.code = 0 =>
                      /\ last'.merges = 1
                      /\ _final_filename(base_ts) \in finals']_vars

\* C17 witness: a stop merged two completed segments into the final output.
C17_Witness ==
    /\ last.op = "stop"
    /\ last.code = 0
    /\ last.merges = 1
    /\ Len(segments) = 2
    /\ segments[1] # segments[2]
    /\ last.mlist = segments
    /\ _final_filename(base_ts) \in finals

\* C18 (as stated): intermediate files are removed only after confirmed
\* success: when a finalization step fails (stop returns nonzero) every
\* completed segment file that existed still exists afterwards and nothing is
\* deleted; segment files, the list file and the segment directory are deleted
\* only after the merge tool returned success.
C18_CleanupOnlyAfterMerge ==
    [][(last'.op = "stop" /\ opt # 0 /\ segments' # <<>>) =>
          LET written == IF proc = 0 THEN {}
                         ELSE {<<procs[proc].ts, procs[proc].idx>>}
              n == Len(segments')
              appended == n > Len(segments)
              kept == /\ \A s \in SeqToSet(segments') \ written :
                            s \in files => s \in files'
                      /\ appended => segments'[n] \in files'
              removed == \/ ~((files \ written) \subseteq files')
                         \/ appended /\ segments'[n] \notin files'
                         \/ ~(dirs \subseteq dirs')
                         \/ ~(lists \subseteq lists')
          IN  /\ last'.code # 0 => (kept /\ ~removed)
              /\ removed => (last'.merges = 1 /\ last'.code = 0)]_vars

\* C18 (amended): when a finalization step fails (stop returns nonzero) every
\* completed segment file that existed still exists afterwards and nothing is
\* deleted; segment files, the list file and the segment directory are removed
\* only after finalization succeeded: after the merge tool returned success
\* or, with a single segment, after the move of that segment succeeded.
C18_CleanupOnlyAfterSuccess ==
    [][(last'.op = "stop" /\ opt # 0 /\ segments' # <<>>) =>
          LET written == IF proc = 0 THEN {}
                         ELSE {<<procs[proc].ts, procs[proc].idx>>}
              n == Len(segments')
              appended == n > Len(segments)
              kept == /\ \A s \in SeqToSet(segments') \ written :
                            s \in files => s \in files'
                      /\ appended => segments'[n] \in files'
              removed == \/ ~((files \ written) \subseteq files')
                         \/ appended /\ segments'[n] \notin files'
                         \/ ~(dirs \subseteq dirs')
                         \/ ~(lists \subseteq lists')
          IN  /\ last'.code # 0 => (kept /\ ~removed)
              /\ removed =>
                    /\ last'.code = 0
                    /\ last'.merges = 1 \/ n = 1
                    /\ _final_filename(base_ts) \in finals']_vars

\* C18 witness: the merge tool ran on two segments and returned nonzero; both
\* segment files, the list file and the directory are still there.
C18_Witness ==
    /\ last.op = "stop"
    /\ last.code = 1
    /\ last.merges = 1
    /\ Len(segments) = 2
    /\ SeqToSet(segments) \subseteq files
    /\ base_ts \in lists
    /\ base_ts \in dirs

\* C19: an alternative-name line continues the declaration that directly
\* precedes it and no other: when the line before it is a declaration that
\* made a descriptor, the identifier goes to that descriptor, which then has
\* both fields, and no descriptor is added; and the line never changes a
\* descriptor that a declaration other than the one directly before it made.
C19_AltContinuesAdjacentOnly ==
    [][(pos' = pos + 1 /\ out[pos + 1].t = "alt") =>
          LET n == Len(devices)
              adjacent == /\ pos >= 1
                          /\ out[pos].t = "dev"
                          /\ IsAudioDeclaration(out[pos].name, out[pos].kind,
                                                in_audio)
          IN  /\ adjacent =>
                    /\ Len(devices') = n
                    /\ devices'[n] = Descriptor(out[pos].name, out[pos + 1].alt)
              /\ \A j \in 1..n :
                    (devices[j].display # "" /\ (j < n \/ ~adjacent))
                        => devices'[j] = devices[j]]_vars

\* C20: in the virtual-device pick the exact phase wins over the keyword
\* phases and every phase returns its first match.  If some descriptor's
\* display name equals a candidate name case-insensitively, the result is the
\* first descriptor of the catalog that matches the earliest such candidate,
\* whatever matches by keyword before it; otherwise it is the first descriptor
\* whose display name holds a keyword, otherwise the first whose alternative
\* name holds one, otherwise none.
C20_ExactFirstThenKeywords ==
    picked.done =>
        LET matches(k) == {i \in 1..Len(devs) :
                              Lower(devs[i].display) = Lower(VAC_CANDIDATES[k])}
            exact == {k \in 1..Len(VAC_CANDIDATES) : matches(k) # {}}
            byDisplay == {i \in 1..Len(devs) : HasKeyword(Lower(devs[i].display))}
            byAlt == {i \in 1..Len(devs) : HasKeyword(Lower(devs[i].alt))}
        IN  IF exact # {}
            THEN picked.found /\ picked.d = devs[First(matches(First(exact)))]
            ELSE IF byDisplay # {}
            THEN picked.found /\ picked.d = devs[First(byDisplay)]
            ELSE IF byAlt # {}
            THEN picked.found /\ picked.d = devs[First(byAlt)]
            ELSE ~picked.found

C22_StateAgreesWithHandle ==
    (\A p \in Pids : procs[p].st # "exited") =>
        /\ is_recording(state) <=> (proc # 0 /\ procs[proc].st = "running")
        /\ state \in {"IDLE", "PAUSED"} <=> proc = 0

\* C23: a stale completion notification does not affect the current session:
\* when the completion handler runs for a process that is not the controller's
\* current process, it leaves the state, the segment list, the log-suppression
\* flag and the process handle unchanged and spawns no process.
C23_StaleNotificationIgnored ==
    [][(last'.op = "finished" /\ ~last'.cur) =>
          /\ state' = state
          /\ segments' = segments
          /\ suppress_next_seg_log' = suppress_next_seg_log
          /\ proc' = proc
          /\ last'.spawned = 0
          /\ nprocs' = nprocs]_vars

\* C24: the segment that is recording when stop is called is part of the
\* result: when stop is called in RUNNING or CLOSING with a process held and
\* that process exits during stop's bounded waits with code 0 and a non-empty
\* file, the list finalization uses is the list of the segments completed
\* before, followed by that segment.
C24_LastSegmentInResult ==
    [][(/\ last'.op = "stop"
        /\ is_recording(state)
        /\ proc # 0
        /\ last'.how \in {"graceful", "terminate"}
        /\ last'.xcode = 0
        /\ last'.xfile) =>
          /\ segments' =
                Append(segments, _segment_filename(procs[proc].ts, procs[proc].idx))
          /\ last'.fins = 1
          /\ last'.merges = 1 => last'.mlist = MergeList(segments')]_vars

\* C24 witness: a stop in CLOSING whose process exited cleanly in the second
\* wait, after two segments were completed; the merge ran on all three.
C24_Witness ==
    /\ last.op = "stop"
    /\ last.pre = "CLOSING"
    /\ last.how = "terminate"
    /\ last.xcode = 0
    /\ last.xfile
    /\ last.merges = 1
    /\ Len(segments) = 3
    /\ segments[3] = _segment_filename(procs[last.who].ts, procs[last.who].idx)

C26_CompletedNeverOverwritten ==
    [][/\ \A i \in 1..Len(segments') :
             segments'[i] = _segment_filename(seg_dir', i)
       /\ last'.spawned = 1 =>
             _segment_filename(procs'[nprocs'].ts, procs'[nprocs'].idx)
                 \notin SeqToSet(segments')]_vars

====
